---- MODULE Spec2Model ----
(***************************************************************************)
(* Model of the streaming ingestion client of src/okx.py:                  *)
(* RollingJsonWriter (flush_buffers, _build_filename) and                  *)
(* OkxPublicWSClient (set_subscriptions, _subscribe_all, _ping_loop,       *)
(* _flush_loop, _handle_message, _connect_once, run_forever).              *)
(*                                                                         *)
(* Three asyncio tasks share one event loop: the main task (run_forever    *)
(* with _connect_once inlined), the ping task and the flush task.  Each    *)
(* action is the code one task runs between two suspension points.         *)
(* asyncio.CancelledError derives from BaseException (Python 3.8 and       *)
(* later), so neither "except Exception" nor contextlib.suppress(Exception)*)
(* handles it.                                                             *)
(***************************************************************************)
EXTENDS Integers, Sequences, FiniteSets, TLC

VARIABLES
    subscriptions,   \* self._subscriptions: sequence of Subscription
    buffers,         \* self._buffers: (inst_id, channel) -> sequence of envelopes
    key_order,       \* the keys of self._buffers in insertion order (dict order)
    last_flush_ms,   \* self._last_flush_ms
    stop,            \* self._stop
    ws,              \* self._ws: 0 is None, n > 0 the n-th connection
    delay,           \* run_forever's local delay
    pc,              \* where the main task is suspended
    ping_task,       \* "none" | "sleeping" | "done" | "cancelled"
    flush_task,      \* "none" | "sleeping" | "cancelled"
    transport,       \* state of the connection ws names: "none" | "open" | "closed" | "broken"
    clock,           \* wall clock, in seconds
    flush_wake,      \* clock value at which the flush task's sleep(1) is over
    rotate_seconds,  \* run_forever's argument
    writes,          \* files written so far: sequence of [key, path, content, now_ms]
    sent,            \* payloads handed to self._ws.send on the current connection
    hist,            \* observations of the run (no code reads them)
    budget           \* how far this run of the model goes (fixed in Init)

vars == <<subscriptions, buffers, key_order, last_flush_ms, stop, ws, delay, pc, ping_task,
          flush_task, transport, clock, flush_wake, rotate_seconds, writes, sent, hist, budget>>

----------------------------------------------------------------------------
(* Bounds of the model *)

MaxFrames == 3      \* envelopes appended in a flushing run
MaxClock == 4       \* last second the clock of a flushing run reaches
MaxRotate == 2      \* largest rotation interval given to run_forever
MaxAttempts == 7    \* connection attempts of a reconnecting run
MaxConnects == 2    \* connection attempts of a session run
MaxSessionFrames == 2 \* envelopes appended in a session or classifying run
MaxSetCalls == 1    \* calls of set_subscriptions while a session run is under way
MaxPings == 1       \* pings sent in a session run

(* Program constants *)

reconnect_base_delay_seconds == 1
reconnect_max_delay_seconds == 30

----------------------------------------------------------------------------
(* Python values that are not strings *)

NoneVal == "<None>"
Unhashable == "<list>"

Min(a, b) == IF a <= b THEN a ELSE b

(* Subscription and Subscription.to_arg *)

Sub(c, i) == [channel |-> c, inst_id |-> i]

to_arg(sub) == [channel |-> sub.channel, instId |-> sub.inst_id]

SubTrades == Sub("trades", "BTC")
SubBooks == Sub("books", "BTC")

SubLists == {<<>>, <<SubTrades>>, <<SubTrades, SubBooks>>}

(* How far one run of the model goes.  A flushing run follows the buffers  *)
(* of one connection through time and flushes; a classifying run passes    *)
(* every shape of frame to the classifier; a session run follows a         *)
(* connection through reconnects, pings, set_subscriptions and shutdown    *)
(* within one second; a reconnecting run follows many connection attempts. *)
FlushingRun ==
    [frames |-> MaxFrames, shapes |-> "plain", attempts |-> 1, clock |-> MaxClock,
     sets |-> 0, pings |-> 0, shutdown |-> FALSE, lists |-> {<<SubTrades, SubBooks>>}]

ClassifyingRun ==
    [frames |-> MaxSessionFrames, shapes |-> "all", attempts |-> 1, clock |-> 1,
     sets |-> 0, pings |-> 0, shutdown |-> FALSE, lists |-> {<<SubTrades>>}]

SessionRun ==
    [frames |-> MaxSessionFrames, shapes |-> "plain", attempts |-> MaxConnects,
     clock |-> 1, sets |-> MaxSetCalls, pings |-> MaxPings,
     shutdown |-> TRUE, lists |-> SubLists]

ReconnectingRun ==
    [frames |-> 0, shapes |-> "plain", attempts |-> MaxAttempts, clock |-> 1,
     sets |-> 0, pings |-> 0, shutdown |-> FALSE, lists |-> SubLists]

(* A rotating run follows one connection whose server pushes frames for    *)
(* instruments and channels that have an underscore in their name, through *)
(* flushes and a shutdown.                                                 *)
RotatingRun ==
    [frames |-> MaxSessionFrames, shapes |-> "underscore", attempts |-> 1,
     clock |-> MaxClock, sets |-> 0, pings |-> 0, shutdown |-> TRUE,
     lists |-> {<<SubTrades>>}]

Runs == {FlushingRun, ClassifyingRun, SessionRun, ReconnectingRun, RotatingRun}

KeyOf(sub) == <<sub.inst_id, sub.channel>>

EmptyBuffers == [k \in {} |-> <<>>]

----------------------------------------------------------------------------
(* Inbound frames, as json.loads sees them.                                *)
(*   json:  "invalid" (json.loads raises), "nonobject" (a list, a number,  *)
(*          null) or "object" (a dict)                                     *)
(*   event, action: a string, or NoneVal when the member is missing        *)
(*   arg:   kind "absent" (None), "empty" ({}), "scalar" (truthy, no dict) *)
(*          or "object" with channel and instId                            *)
(*   data:  kind "absent", "empty" ([]) or "rows" (a non-empty payload,    *)
(*          here the number n that tells payloads apart)                   *)

Arg(kind, c, i) == [kind |-> kind, channel |-> c, instId |-> i]
NoArg == Arg("absent", NoneVal, NoneVal)
Data(kind, n) == [kind |-> kind, rows |-> n]
NoData == Data("absent", 0)

Frame(j, e, a, d, act) == [json |-> j, event |-> e, arg |-> a, data |-> d, action |-> act]

ControlEvents == {"pong", "subscribe", "error"}

DataArgs ==
    {Arg("object", "trades", "BTC"), Arg("object", "books", "BTC"),
     Arg("object", "trades", "ETH")}

DataFrames(n) ==
    {Frame("object", NoneVal, a, Data("rows", n), act) :
        a \in DataArgs, act \in {NoneVal, "update"}}
    \cup {Frame("object", "notice", Arg("object", "trades", "BTC"), Data("rows", n), NoneVal),
          Frame("object", NoneVal, Arg("object", NoneVal, "BTC"), Data("rows", n), NoneVal)}

ControlFrames(n) ==
    {Frame("object", e, NoArg, NoData, NoneVal) : e \in ControlEvents}
    \cup {Frame("object", e, Arg("object", "trades", "BTC"), Data("rows", n), "update") :
            e \in ControlEvents}
    \cup {Frame("object", "pong", Arg("scalar", NoneVal, NoneVal), Data("rows", n), NoneVal)}

MalformedFrames(n) ==
    {Frame("invalid", NoneVal, NoArg, NoData, NoneVal),
     Frame("nonobject", NoneVal, NoArg, NoData, NoneVal),
     Frame("object", NoneVal, NoArg, Data("rows", n), NoneVal),
     Frame("object", NoneVal, Arg("empty", NoneVal, NoneVal), Data("rows", n), NoneVal),
     Frame("object", NoneVal, Arg("object", "trades", "BTC"), NoData, NoneVal),
     Frame("object", NoneVal, Arg("object", "trades", "BTC"), Data("empty", 0), NoneVal),
     Frame("object", NoneVal, Arg("scalar", NoneVal, NoneVal), NoData, NoneVal),
     Frame("object", NoneVal, Arg("scalar", NoneVal, NoneVal), Data("rows", n), NoneVal),
     Frame("object", NoneVal, Arg("object", "trades", Unhashable), Data("rows", n), NoneVal),
     Frame("object", Unhashable, NoArg, NoData, NoneVal)}

Frames(n) == DataFrames(n) \cup ControlFrames(n) \cup MalformedFrames(n)

PlainFrames(n) ==
    {Frame("object", NoneVal, a, Data("rows", n), NoneVal) :
        a \in {Arg("object", "trades", "BTC"), Arg("object", "books", "BTC")}}

(* Data frames of two keys whose instId and channel hold an underscore *)
UnderscoreFrames(n) ==
    {Frame("object", NoneVal, a, Data("rows", n), NoneVal) :
        a \in {Arg("object", "trades", "BTC_USDT"), Arg("object", "USDT_trades", "BTC")}}

(* The frames the server may send in a run of the given shapes *)
FramesOf(shapes, n) ==
    CASE shapes = "all" -> Frames(n)
      [] shapes = "underscore" -> UnderscoreFrames(n)
      [] OTHER -> PlainFrames(n)

(* Python truth of msg.get("arg") and msg.get("data") *)
Truthy(v) == v.kind \in {"scalar", "object", "rows"}

(* The envelope if "action" were stored without the test of line 200 *)
EnvelopeAlwaysAction(f, now) ==
    [instId |-> f.arg.instId, timestamp |-> now, source |-> "WS",
     channel |-> f.arg.channel, data |-> f.data.rows, action |-> f.action]

(* The envelope _handle_message builds (lines 192-201): the timestamp is   *)
(* the UTC clock at second precision; "action" is a member only when the   *)
(* frame has one.                                                          *)
Envelope(f, now) ==
    LET base == [instId |-> f.arg.instId, timestamp |-> now, source |-> "WS",
                 channel |-> f.arg.channel, data |-> f.data.rows]
    IN  IF f.action /= NoneVal THEN base @@ [action |-> f.action] ELSE base

AppendToFront(bufs, key, payload) ==
    IF key \in DOMAIN bufs
    THEN [bufs EXCEPT ![key] = <<payload>> \o @]
    ELSE bufs @@ (key :> <<payload>>)

(* self._buffers[key].append(payload), after creating a missing entry *)
AppendTo(bufs, key, payload) ==
    IF key \in DOMAIN bufs
    THEN [bufs EXCEPT ![key] = Append(@, payload)]
    ELSE bufs @@ (key :> <<payload>>)

IsControlPongOnly(f) == f.json = "object" /\ f.event = "pong"

(* The test of line 176 *)
IsControl(f) == f.json = "object" /\ f.event \in ControlEvents

(* _handle_message(raw) on buffers bufs at time now: the buffers after it, *)
(* whether it raised, and the key it appended to (<<>> when none).         *)
HandleMessage(bufs, f, now) ==
    LET same == [buffers |-> bufs, raised |-> FALSE, key |-> <<>>]
        fail == [buffers |-> bufs, raised |-> TRUE, key |-> <<>>]
    IN  IF f.json = "invalid" THEN same
        ELSE IF f.json = "object" /\ f.event = Unhashable THEN fail
        ELSE IF IsControl(f) THEN same
        ELSE IF f.json /= "object" THEN fail
        ELSE IF ~Truthy(f.arg) \/ ~Truthy(f.data) THEN same
        ELSE IF f.arg.kind /= "object" THEN fail
        ELSE IF Unhashable \in {f.arg.instId, f.arg.channel} THEN fail
        ELSE LET key == <<f.arg.instId, f.arg.channel>>
             IN  [buffers |-> AppendTo(bufs, key, Envelope(f, now)),
                  raised |-> FALSE, key |-> key]

----------------------------------------------------------------------------
(* RollingJsonWriter *)

output_dir == "./okx_out/realtime"

(* str() of a value inside an f-string *)
Str(v) == IF v = NoneVal THEN "None" ELSE v

(* _build_filename: the timestamp is epoch_ms cut to whole seconds *)
build_filename(inst_id, channel, epoch_ms) ==
    output_dir \o "/" \o Str(inst_id) \o "_" \o Str(channel) \o "_"
        \o ToString(epoch_ms \div 1000) \o ".json"

AfterWriteKeepsAll(messages, ok) == messages

(* What the finally clause of flush_buffers leaves in buffers[key] (line   *)
(* 117), whether the write succeeded or not.                               *)
AfterWrite(messages, ok) == <<>>

(* flush_buffers without its try: the first failing write ends the loop *)
flush_buffers_abort(bufs, order, now_ms, failing) ==
    LET nonempty == SelectSeq(order, LAMBDA k : bufs[k] /= <<>>)
        stops == {i \in 1..Len(nonempty) : nonempty[i] \in failing}
        reached == IF stops = {} THEN nonempty
                   ELSE SubSeq(nonempty, 1,
                               (CHOOSE i \in stops : \A j \in stops : i <= j) - 1)
        done == {reached[i] : i \in 1..Len(reached)}
    IN  [buffers |-> [k \in DOMAIN bufs |-> IF k \in done THEN <<>> ELSE bufs[k]],
         writes |-> [i \in 1..Len(reached) |->
                        [key |-> reached[i],
                         path |-> build_filename(reached[i][1], reached[i][2], now_ms),
                         content |-> bufs[reached[i]],
                         now_ms |-> now_ms]]]

(* flush_buffers(buffers, now_ms), the writes of the keys in failing       *)
(* raising: the buffers after it and the files written, in dict order.     *)
flush_buffers(bufs, order, now_ms, failing) ==
    LET nonempty == SelectSeq(order, LAMBDA k : bufs[k] /= <<>>)
        written == SelectSeq(nonempty, LAMBDA k : k \notin failing)
    IN  [buffers |-> [k \in DOMAIN bufs |->
                        IF bufs[k] = <<>> THEN bufs[k]
                        ELSE AfterWrite(bufs[k], k \notin failing)],
         writes |-> [i \in 1..Len(written) |->
                        [key |-> written[i],
                         path |-> build_filename(written[i][1], written[i][2], now_ms),
                         content |-> bufs[written[i]],
                         now_ms |-> now_ms]]]

NonEmptyKeys(bufs) == {k \in DOMAIN bufs : bufs[k] /= <<>>}

----------------------------------------------------------------------------
(* The state after construction (OkxPublicWSClient.__init__, lines 121-128) *)

NoFrame == Frame("none", NoneVal, NoArg, NoData, NoneVal)

(* The arrival log after envelope e arrived for key *)
Arrived(log, key, e) ==
    IF key \in DOMAIN log THEN [log EXCEPT ![key] = @ \o <<e>>] ELSE log @@ (key :> <<e>>)

(* No frame was handled by the step that led here *)
Quiet(h) == [h EXCEPT !.lastFrame = NoFrame]

InitHist ==
    [nset |-> 0,            \* calls of set_subscriptions after run_forever began
     attempts |-> 0,        \* calls of _connect_once
     asserts |-> 0,         \* AssertionErrors of _connect_once reported by run_forever
     waits |-> <<>>,        \* backoff sleeps since delay was last set to the base delay
     lastError |-> "none",  \* what ended the last failed attempt
     nwaits |-> 0,          \* backoff sleeps over the whole run
     handshake |-> FALSE,   \* a subscribe request was sent since the last backoff sleep began
     nappend |-> 0,         \* envelopes appended by _handle_message
     lastFrame |-> NoFrame, \* the frame the last step passed to it (NoFrame: none)
     arrived |-> EmptyBuffers, \* per key, every envelope appended, in arrival order
     pings |-> 0,           \* pings sent
     firstPoll |-> 0,       \* now_ms of the flush loop's first poll (0: none yet)
     prevFlush |-> 0,       \* now_ms of the last call of flush_buffers (0: none yet)
     nflush |-> 0,          \* calls of flush_buffers
     flushFailed |-> {},    \* keys whose write failed in the last call
     shutdown |-> FALSE,    \* the main task was cancelled from outside
     exit |-> "none"]       \* the exception run_forever ended with

Init ==
    /\ subscriptions = <<>>
    /\ buffers = EmptyBuffers
    /\ key_order = <<>>
    /\ last_flush_ms = 0
    /\ stop = FALSE
    /\ ws = 0
    /\ delay = 0
    /\ pc = "idle"
    /\ ping_task = "none"
    /\ flush_task = "none"
    /\ transport = "none"
    /\ clock = 1
    /\ flush_wake = 0
    /\ rotate_seconds = 0
    /\ writes = <<>>
    /\ sent = <<>>
    /\ hist = InitHist
    /\ budget \in Runs

----------------------------------------------------------------------------
(* set_subscriptions (lines 130-135) *)

RECURSIVE EnsureEntries(_, _, _)
EnsureEntries(bufs, order, subs) ==
    IF subs = <<>> THEN [buffers |-> bufs, order |-> order]
    ELSE LET key == KeyOf(Head(subs))
         IN  IF key \in DOMAIN bufs
             THEN EnsureEntries(bufs, order, Tail(subs))
             ELSE EnsureEntries(bufs @@ (key :> <<>>), Append(order, key), Tail(subs))

(* set_subscriptions if it built the buffers anew from the list *)
set_subscriptions_rebuild(bufs, order, subs) ==
    LET r == EnsureEntries(EmptyBuffers, <<>>, subs)
    IN  [subscriptions |-> subs, buffers |-> r.buffers, order |-> r.order]

set_subscriptions(bufs, order, subs) ==
    LET r == EnsureEntries(bufs, order, subs)
    IN  [subscriptions |-> subs, buffers |-> r.buffers, order |-> r.order]

SetSubscriptions(subs) ==
    /\ pc /= "terminated"
    /\ pc /= "idle" => hist.nset < budget.sets
    /\ LET r == set_subscriptions(buffers, key_order, subs)
       IN  /\ subscriptions' = r.subscriptions
           /\ buffers' = r.buffers
           /\ key_order' = r.order
    /\ hist' = [Quiet(hist) EXCEPT !.nset = IF pc = "idle" THEN @ ELSE @ + 1]
    /\ UNCHANGED <<last_flush_ms, stop, ws, delay, pc, ping_task, flush_task, transport,
                   clock, flush_wake, rotate_seconds, writes, sent, budget>>

----------------------------------------------------------------------------
(* run_forever and _connect_once (lines 205-237) *)

NextDelayUncapped(d) == d * 2

(* delay = min(delay * 2, reconnect_max_delay_seconds), line 232 *)
NextDelay(d) == Min(d * 2, reconnect_max_delay_seconds)

(* The delay after _connect_once returned without an exception, line 228 *)
DelayAfterReturn(d) == reconnect_base_delay_seconds

(* "except Exception" of run_forever (lines 229-231): the traceback is     *)
(* printed and the main task sleeps the current delay d.                   *)
Backoff(h, d, err) ==
    /\ pc' = "backoff"
    /\ hist' = [h EXCEPT !.waits = Append(@, d), !.nwaits = @ + 1, !.lastError = err,
                         !.handshake = FALSE,
                         !.asserts = IF err = "AssertionError" THEN @ + 1 ELSE @]

(* One pass of "while not self._stop" up to the first await of             *)
(* _connect_once: the assert of line 206 raises AssertionError, an         *)
(* Exception, which run_forever handles like any failed attempt.           *)
EnterAttempt(h, d) ==
    LET h1 == [h EXCEPT !.attempts = @ + 1]
    IN  IF subscriptions = <<>>
        THEN Backoff(h1, d, "AssertionError")
        ELSE /\ pc' = "connecting"
             /\ hist' = h1

(* run_forever is called (lines 221-227): the flush task is created and    *)
(* starts its first sleep(1) when the main task first suspends.            *)
Start(r) ==
    /\ pc = "idle"
    /\ rotate_seconds' = r
    /\ stop' = FALSE
    /\ flush_task' = "sleeping"
    /\ flush_wake' = clock + 1
    /\ delay' = reconnect_base_delay_seconds
    /\ EnterAttempt(Quiet(hist), delay')
    /\ UNCHANGED <<subscriptions, buffers, key_order, last_flush_ms, ws, ping_task, transport,
                   clock, writes, sent, budget>>

(* websockets.connect raises (refused, timeout, handshake failure) *)
ConnectFail ==
    /\ pc = "connecting"
    /\ Backoff(Quiet(hist), delay, "ConnectError")
    /\ UNCHANGED <<subscriptions, buffers, key_order, last_flush_ms, stop, ws, delay,
                   ping_task, flush_task, transport, clock, flush_wake, rotate_seconds,
                   writes, sent, budget>>

(* _subscribe_all (lines 142-146): the payload handed to ws.send *)
SubscribePayload(conn, subs) ==
    [conn |-> conn, op |-> "subscribe", args |-> [i \in 1..Len(subs) |-> to_arg(subs[i])]]

(* websockets.connect returns (lines 207-209): self._ws is set and         *)
(* _subscribe_all runs up to its await of ws.send; with no subscriptions   *)
(* it returns at once and the attempt goes on to line 211.                 *)
ConnectOk ==
    /\ pc = "connecting"
    /\ ws' = hist.attempts
    /\ transport' = "open"
    /\ IF subscriptions = <<>>
       THEN /\ pc' = "streaming"
            /\ ping_task' = "sleeping"
            /\ sent' = <<>>
            /\ hist' = Quiet(hist)
       ELSE /\ pc' = "subscribing"
            /\ ping_task' = ping_task
            /\ sent' = <<SubscribePayload(ws', subscriptions)>>
            /\ hist' = Quiet(hist)
    /\ UNCHANGED <<subscriptions, buffers, key_order, last_flush_ms, stop, delay,
                   flush_task, clock, flush_wake, rotate_seconds, writes, budget>>

(* ws.send of the subscribe request returns: the ping task is created      *)
(* (line 211) and the main task waits for the first frame (line 213).      *)
SubscribeDone ==
    /\ pc = "subscribing"
    /\ pc' = "streaming"
    /\ ping_task' = "sleeping"
    /\ hist' = [Quiet(hist) EXCEPT !.handshake = TRUE]
    /\ UNCHANGED <<subscriptions, buffers, key_order, last_flush_ms, stop, ws, delay,
                   flush_task, transport, clock, flush_wake, rotate_seconds, writes, sent, budget>>

(* ws.send of the subscribe request raises: no ping task exists yet, the   *)
(* "async with" closes the connection and run_forever handles the error.   *)
SubscribeFail ==
    /\ pc = "subscribing"
    /\ transport' = "broken"
    /\ Backoff(Quiet(hist), delay, "SendError")
    /\ UNCHANGED <<subscriptions, buffers, key_order, last_flush_ms, stop, ws, delay,
                   ping_task, flush_task, clock, flush_wake, rotate_seconds, writes, sent, budget>>

(* The end of a streaming attempt if the ping task were left running *)
EndAttemptKeepsPinger(h, cause) ==
    /\ ping_task' = ping_task
    /\ stop' = stop
    /\ flush_task' = flush_task
    /\ delay' = delay
    /\ Backoff(h, delay, cause)

(* The end of a streaming attempt if awaiting the ping task raised in any  *)
(* state of that task                                                      *)
EndAttemptRaises(h, cause) ==
    /\ ping_task' = "cancelled"
    /\ stop' = TRUE
    /\ flush_task' = "cancelled"
    /\ pc' = "terminated"
    /\ delay' = delay
    /\ hist' = [h EXCEPT !.exit = "CancelledError"]

(* The end of a streaming attempt: the finally clause of _connect_once     *)
(* (lines 215-218) and what run_forever does next (lines 228-237).         *)
(* cause is "clean" when the receive loop ended without an exception.      *)
(* ping_task.cancel() on a pending ping task makes "await ping_task" raise *)
(* CancelledError, which suppress(Exception) lets through and which        *)
(* "except Exception" of run_forever does not handle: run_forever's finally*)
(* clause runs, its own "await flush_task" raises CancelledError again.    *)
EndAttempt(h, cause) ==
    IF ping_task = "sleeping"
    THEN /\ ping_task' = "cancelled"
         /\ stop' = TRUE
         /\ flush_task' = "cancelled"
         /\ pc' = "terminated"
         /\ delay' = delay
         /\ hist' = [h EXCEPT !.exit = "CancelledError"]
    ELSE /\ ping_task' = ping_task
         /\ stop' = stop
         /\ flush_task' = flush_task
         /\ IF cause = "clean"
            THEN /\ h.attempts < budget.attempts
                 /\ delay' = DelayAfterReturn(delay)
                 /\ EnterAttempt([h EXCEPT !.waits = <<>>], delay')
            ELSE /\ delay' = delay
                 /\ Backoff(h, delay, cause)

(* A frame arrives and _handle_message runs on it (lines 213-214; it has   *)
(* no await of its own).  An exception it raises leaves the receive loop.  *)
RecvFrame(f) ==
    /\ pc = "streaming"
    /\ transport = "open"
    /\ LET r == HandleMessage(buffers, f, clock)
           h == IF r.key = <<>> THEN [hist EXCEPT !.lastFrame = f]
                ELSE [hist EXCEPT !.lastFrame = f, !.nappend = @ + 1,
                                  !.arrived = Arrived(@, r.key, Envelope(f, clock))]
       IN  /\ r.key /= <<>> => hist.nappend < budget.frames
           /\ buffers' = r.buffers
           /\ key_order' = IF r.key = <<>> \/ r.key \in DOMAIN buffers
                           THEN key_order ELSE Append(key_order, r.key)
           /\ IF r.raised
              THEN /\ transport' = "closed"
                   /\ EndAttempt(h, "HandlerError")
              ELSE /\ hist' = h
                   /\ UNCHANGED <<transport, pc, ping_task, stop, flush_task, delay>>
    /\ UNCHANGED <<subscriptions, last_flush_ms, ws, clock, flush_wake, rotate_seconds,
                   writes, sent, budget>>

(* The server closes the connection with a normal close code *)
TransportClose ==
    /\ pc = "streaming"
    /\ transport = "open"
    /\ transport' = "closed"
    /\ UNCHANGED <<subscriptions, buffers, key_order, last_flush_ms, stop, ws, delay, pc,
                   ping_task, flush_task, clock, flush_wake, rotate_seconds, writes, sent, budget>>
    /\ hist' = Quiet(hist)

(* The connection is lost or closed abnormally *)
TransportBreak ==
    /\ pc = "streaming"
    /\ transport = "open"
    /\ transport' = "broken"
    /\ UNCHANGED <<subscriptions, buffers, key_order, last_flush_ms, stop, ws, delay, pc,
                   ping_task, flush_task, clock, flush_wake, rotate_seconds, writes, sent, budget>>
    /\ hist' = Quiet(hist)

(* "async for message in ws" ends: silently after a normal close, with     *)
(* ConnectionClosedError otherwise.                                        *)
RecvEnd ==
    /\ pc = "streaming"
    /\ transport \in {"closed", "broken"}
    /\ EndAttempt(Quiet(hist), IF transport = "closed" THEN "clean" ELSE "RecvError")
    /\ UNCHANGED <<subscriptions, buffers, key_order, last_flush_ms, ws, transport, clock,
                   flush_wake, rotate_seconds, writes, sent, budget>>

(* The sleep of run_forever's "except" branch is over (lines 231-232 and   *)
(* the next pass of the loop).                                             *)
BackoffWake ==
    /\ pc = "backoff"
    /\ hist.attempts < budget.attempts
    /\ delay' = NextDelay(delay)
    /\ EnterAttempt(Quiet(hist), delay')
    /\ UNCHANGED <<subscriptions, buffers, key_order, last_flush_ms, stop, ws, ping_task,
                   flush_task, transport, clock, flush_wake, rotate_seconds, writes, sent, budget>>

(* _ping_loop (lines 148-154): its sleep is over and it sends a ping; a    *)
(* failed send ends the loop.                                              *)
PingWake ==
    /\ ping_task = "sleeping"
    /\ IF transport = "open"
       THEN /\ hist.pings < budget.pings
            /\ sent' = Append(sent, [conn |-> ws, op |-> "ping", args |-> <<>>])
            /\ hist' = [Quiet(hist) EXCEPT !.pings = @ + 1]
            /\ ping_task' = IF ~stop /\ ws /= 0 THEN "sleeping" ELSE "done"
       ELSE /\ sent' = sent
            /\ hist' = Quiet(hist)
            /\ ping_task' = "done"
    /\ UNCHANGED <<subscriptions, buffers, key_order, last_flush_ms, stop, ws, delay, pc,
                   flush_task, transport, clock, flush_wake, rotate_seconds, writes, budget>>

(* The shutdown if run_forever's finally clause flushed the buffers before *)
(* it cancelled the flush task                                             *)
ShutdownFlushes ==
    /\ budget.shutdown
    /\ pc \in {"connecting", "subscribing", "streaming", "backoff"}
    /\ ping_task' = IF ping_task = "sleeping" THEN "cancelled" ELSE ping_task
    /\ transport' = IF transport = "open" THEN "closed" ELSE transport
    /\ stop' = TRUE
    /\ flush_task' = "cancelled"
    /\ pc' = "terminated"
    /\ LET r == flush_buffers(buffers, key_order, clock * 1000, {})
       IN  /\ buffers' = r.buffers
           /\ writes' = writes \o r.writes
    /\ hist' = [Quiet(hist) EXCEPT !.shutdown = TRUE, !.exit = "CancelledError"]
    /\ UNCHANGED <<subscriptions, key_order, last_flush_ms, ws, delay, clock,
                   flush_wake, rotate_seconds, sent, budget>>

(* The main task is cancelled from outside (asyncio.run on an interrupt):  *)
(* CancelledError is raised at the await it is suspended in, the finally   *)
(* clauses of _connect_once and run_forever run (lines 215-218, 233-237).  *)
Shutdown ==
    /\ budget.shutdown
    /\ pc \in {"connecting", "subscribing", "streaming", "backoff"}
    /\ ping_task' = IF ping_task = "sleeping" THEN "cancelled" ELSE ping_task
    /\ transport' = IF transport = "open" THEN "closed" ELSE transport
    /\ stop' = TRUE
    /\ flush_task' = "cancelled"
    /\ pc' = "terminated"
    /\ hist' = [Quiet(hist) EXCEPT !.shutdown = TRUE, !.exit = "CancelledError"]
    /\ UNCHANGED <<subscriptions, buffers, key_order, last_flush_ms, ws, delay, clock,
                   flush_wake, rotate_seconds, writes, sent, budget>>

----------------------------------------------------------------------------
(* Time, and the flush loop (lines 156-168) *)

Tick ==
    /\ pc \notin {"idle", "terminated"}
    /\ clock < budget.clock
    /\ clock' = clock + 1
    /\ UNCHANGED <<subscriptions, buffers, key_order, last_flush_ms, stop, ws, delay, pc,
                   ping_task, flush_task, transport, flush_wake, rotate_seconds, writes,
                   sent, budget>>
    /\ hist' = Quiet(hist)

(* int(time.time() * 1000) *)
NowMs == clock * 1000

(* The reference time of line 164 after lines 162-163 *)
FlushReference(last, now_ms) == IF last = 0 THEN now_ms ELSE last

FlushDueStrict(now_ms, last, rotate_ms) == now_ms - last > rotate_ms

(* The test of line 164 *)
FlushDue(now_ms, last, rotate_ms) == now_ms - last >= rotate_ms

(* One pass of the loop after its sleep(1): flush_buffers has no await, so *)
(* the pass is one step.  failing: the keys whose file cannot be written.  *)
FlushPoll(failing) ==
    /\ flush_task = "sleeping"
    /\ clock >= flush_wake
    /\ LET rotate_ms == rotate_seconds * 1000
           last == FlushReference(last_flush_ms, NowMs)
           h == [Quiet(hist) EXCEPT !.firstPoll = IF @ = 0 THEN NowMs ELSE @]
       IN  IF FlushDue(NowMs, last, rotate_ms)
           THEN LET r == flush_buffers(buffers, key_order, NowMs, failing)
                IN  /\ failing \subseteq NonEmptyKeys(buffers)
                    /\ buffers' = r.buffers
                    /\ writes' = writes \o r.writes
                    /\ last_flush_ms' = NowMs
                    /\ hist' = [h EXCEPT !.prevFlush = NowMs, !.nflush = @ + 1,
                                         !.flushFailed = failing]
           ELSE /\ failing = {}
                /\ last_flush_ms' = last
                /\ hist' = h
                /\ UNCHANGED <<buffers, writes>>
    /\ flush_wake' = clock + 1
    /\ UNCHANGED <<subscriptions, key_order, stop, ws, delay, pc, ping_task, flush_task,
                   transport, clock, rotate_seconds, sent, budget>>

----------------------------------------------------------------------------

Next ==
    \/ \E subs \in budget.lists : SetSubscriptions(subs)
    \/ \E r \in 1..MaxRotate : Start(r)
    \/ ConnectFail
    \/ ConnectOk
    \/ SubscribeDone
    \/ SubscribeFail
    \/ \E f \in FramesOf(budget.shapes, hist.nappend + 1) : RecvFrame(f)
    \/ TransportClose
    \/ TransportBreak
    \/ RecvEnd
    \/ BackoffWake
    \/ PingWake
    \/ Shutdown
    \/ Tick
    \/ \E failing \in SUBSET DOMAIN buffers : FlushPoll(failing)

Spec == Init /\ [][Next]_vars

----------------------------------------------------------------------------
(* Helpers of the properties *)

Last(s) == s[Len(s)]

IsSuffix(s, t) ==
    /\ Len(s) <= Len(t)
    /\ s = SubSeq(t, Len(t) - Len(s) + 1, Len(t))

(* s is t with some elements left out, the rest in t's order *)
RECURSIVE IsSubseq(_, _)
IsSubseq(s, t) ==
    IF s = <<>> THEN TRUE
    ELSE IF t = <<>> THEN FALSE
    ELSE IF Head(s) = Head(t) THEN IsSubseq(Tail(s), Tail(t))
    ELSE IsSubseq(s, Tail(t))

(* The contents of the files written for key k, one after the other *)
RECURSIVE WrittenFor(_, _)
WrittenFor(k, ws_) ==
    IF ws_ = <<>> THEN <<>>
    ELSE (IF Head(ws_).key = k THEN Head(ws_).content ELSE <<>>) \o WrittenFor(k, Tail(ws_))

(* The files the step wrote *)
NewWrites == SubSeq(writes', Len(writes) + 1, Len(writes'))

NewWritesFor(k) == SelectSeq(NewWrites, LAMBDA w : w.key = k)

(* The step is a call of flush_buffers *)
FlushStep == hist'.nflush = hist.nflush + 1

(* The step is one pass of the flush loop *)
PollStep == flush_task = "sleeping" /\ flush_wake' /= flush_wake

----------------------------------------------------------------------------
(* C1: per key, the buffered sequence is the tail of the envelopes that   *)
(* arrived for that key, and the sequences written to files for the key,   *)
(* followed by the buffered one, keep the arrival order: nothing is        *)
(* reordered or repeated, whatever else is interleaved.                    *)
C1_ArrivalOrderKept ==
    \A k \in DOMAIN hist.arrived :
        /\ k \in DOMAIN buffers
        /\ IsSuffix(buffers[k], hist.arrived[k])
        /\ IsSubseq(WrittenFor(k, writes) \o buffers[k], hist.arrived[k])
        /\ \A i \in 1..Len(writes) :
              writes[i].key = k =>
                  \E a \in 1..Len(hist.arrived[k]) :
                      writes[i].content
                          = SubSeq(hist.arrived[k], a, a + Len(writes[i].content) - 1)

(* Two envelopes of one key were written by one flush, in order, a third   *)
(* of another key arrived between them.                                    *)
C1_Witness ==
    \E i \in 1..Len(writes) :
        /\ Len(writes[i].content) >= 2
        /\ writes[i].content[1].data = 1
        /\ writes[i].content[2].data = 3
        /\ \E k \in DOMAIN hist.arrived : k /= writes[i].key

(* C2: a flush writes, for each key whose sequence is non-empty and whose  *)
(* write succeeds, exactly one file, named by _build_filename and holding  *)
(* the whole pre-flush sequence, and leaves the key's sequence empty; it   *)
(* writes no file for a key whose sequence is empty.                       *)
C2_FlushWritesWholeSequence ==
    [][FlushStep =>
        \A k \in DOMAIN buffers :
            /\ buffers[k] = <<>> => NewWritesFor(k) = <<>> /\ buffers'[k] = <<>>
            /\ (buffers[k] /= <<>> /\ k \notin hist'.flushFailed) =>
                  /\ Len(NewWritesFor(k)) = 1
                  /\ NewWritesFor(k)[1].content = buffers[k]
                  /\ NewWritesFor(k)[1].path = build_filename(k[1], k[2], clock * 1000)
                  /\ buffers'[k] = <<>>]_vars

(* A flush wrote a file of two envelopes, left that key empty, and wrote   *)
(* nothing for the other key, which was empty.                             *)
C2_Witness ==
    /\ hist.nflush = 1
    /\ Len(writes) = 1
    /\ Len(writes[1].content) = 2
    /\ writes[1].now_ms = hist.prevFlush
    /\ hist.flushFailed = {}
    /\ \A k \in DOMAIN buffers : buffers[k] = <<>>
    /\ Cardinality(DOMAIN buffers) = 2

(* C3: a key whose write fails during a flush keeps its buffered sequence  *)
(* unchanged, to be retried by the next flush.                             *)
C3_FailedWriteKeepsSequence ==
    [][FlushStep => \A k \in hist'.flushFailed : buffers'[k] = buffers[k]]_vars

(* C4: in a flush where a write fails, every other non-empty key is still  *)
(* written whole to one file and emptied, wherever the failing key stands  *)
(* in the iteration.                                                       *)
C4_FailureIsolatedPerKey ==
    [][(FlushStep /\ hist'.flushFailed /= {}) =>
        \A k \in NonEmptyKeys(buffers) \ hist'.flushFailed :
            /\ \E i \in 1..Len(NewWrites) :
                  NewWrites[i].key = k /\ NewWrites[i].content = buffers[k]
            /\ buffers'[k] = <<>>]_vars

(* The first key of the iteration failed and the second was written by the *)
(* same flush.                                                             *)
C4_Witness ==
    /\ Len(key_order) >= 2
    /\ hist.flushFailed = {key_order[1]}
    /\ \E i \in 1..Len(writes) :
          writes[i].key = key_order[2] /\ writes[i].now_ms = hist.prevFlush

(* C5: a pass of the flush loop calls flush_buffers exactly when the time  *)
(* since the previous call (since the first pass, before any call) is at   *)
(* least the rotation interval.                                            *)
C5_FlushOnlyWhenIntervalElapsed ==
    [][PollStep =>
        LET now_ms == clock * 1000
            since == IF hist.prevFlush /= 0 THEN hist.prevFlush
                     ELSE IF hist.firstPoll /= 0 THEN hist.firstPoll
                     ELSE now_ms
        IN  FlushStep <=> (now_ms - since >= rotate_seconds * 1000)]_vars

(* With an interval of two seconds the first flush happened exactly two    *)
(* seconds after the first pass of the loop.                               *)
C5_Witness ==
    /\ rotate_seconds = 2
    /\ hist.nflush = 1
    /\ hist.firstPoll = 2000
    /\ hist.prevFlush = 4000
    /\ last_flush_ms = 4000

(* C6: handling a frame whose event is pong, subscribe or error appends to *)
(* no entry of the buffers and creates none, whatever arg, data and action *)
(* the frame carries.                                                      *)
C6_ControlFrameAppendsNothing ==
    [][(hist'.lastFrame.json = "object" /\ hist'.lastFrame.event \in ControlEvents) =>
        /\ buffers' = buffers
        /\ key_order' = key_order
        /\ hist'.nappend = hist.nappend]_vars

(* A control frame that also carried arg, data and action was handled. *)
C6_Witness ==
    /\ hist.lastFrame.event = "subscribe"
    /\ hist.lastFrame.arg.kind = "object"
    /\ hist.lastFrame.data.kind = "rows"
    /\ hist.lastFrame.action = "update"
    /\ pc = "streaming"

(* The k-th wait of a run of consecutive failed attempts, base delay 1 and *)
(* max delay 30: 1, 2, 4, 8, 16, 30, 30, ...                               *)
ExpectedWait(k) == IF k >= 6 THEN 30 ELSE 2 ^ (k - 1)

(* C7: the waits since the delay was last the base delay are 1, 2, 4, 8,   *)
(* 16, 30, 30, ... in this order, none above the max delay, and while the  *)
(* main task waits the delay is still the one it waits.                    *)
C7_BackoffSequence ==
    /\ \A k \in 1..Len(hist.waits) :
          /\ hist.waits[k] = ExpectedWait(k)
          /\ hist.waits[k] <= reconnect_max_delay_seconds
    /\ (pc = "backoff" /\ hist.waits /= <<>>) => delay = Last(hist.waits)

(* Seven attempts in a row failed: the seventh wait is 30 again. *)
C7_Witness ==
    /\ hist.waits = <<1, 2, 4, 8, 16, 30, 30>>
    /\ pc = "backoff"

(* C8: a wait that begins after a subscribe request was sent, with no wait *)
(* in between, is the base delay, also when the attempt that sent it ends  *)
(* with an error.                                                          *)
C8_HandshakeResetsDelay ==
    [][(hist'.nwaits = hist.nwaits + 1 /\ hist.handshake) =>
        Last(hist'.waits) = reconnect_base_delay_seconds]_vars

(* C9: an empty registry is reported once, ends run_forever with the       *)
(* AssertionError, and the main task never sleeps a backoff delay for it.  *)
C9_EmptyRegistryIsFatal ==
    hist.asserts > 0 =>
        /\ hist.asserts = 1
        /\ pc = "terminated"
        /\ hist.exit = "AssertionError"

(* C10: when the receive loop ends because the transport closed while      *)
(* envelopes are buffered, the main task goes on to the next connection    *)
(* attempt (at once or after a backoff wait) and the buffers are as before.*)
C10_ReconnectKeepsBuffers ==
    [][(pc = "streaming" /\ transport \in {"closed", "broken"} /\ pc' /= "streaming"
            /\ ~hist'.shutdown /\ NonEmptyKeys(buffers) /= {}) =>
        /\ pc' \in {"connecting", "backoff"}
        /\ buffers' = buffers]_vars

(* C11: run_forever ends only after a shutdown request: whatever way a     *)
(* connection attempt failed or was closed, also with its ping task still  *)
(* in its sleep, the main task does not terminate unless it was cancelled  *)
(* from outside.  (Ends caused by a frame that made _handle_message raise  *)
(* are left to C12: the last step handled no frame.)                       *)
C11_StopsOnlyOnShutdown ==
    (pc = "terminated" /\ hist.lastFrame = NoFrame) => hist.shutdown

(* The frames C12 is about: text that is no JSON, JSON that is no object,  *)
(* and objects that are no control frame and lack arg or data (absent or   *)
(* empty) or whose arg is not an object.                                   *)
Malformed(f) ==
    \/ f.json \in {"invalid", "nonobject"}
    \/ /\ f.json = "object"
       /\ f.event \notin ControlEvents
       /\ \/ ~Truthy(f.arg)
          \/ ~Truthy(f.data)
          \/ f.arg.kind /= "object"

(* C12: handling a malformed or incomplete frame changes no entry of the   *)
(* buffers and raises nothing: the receive loop goes on with the same      *)
(* connection and no backoff wait begins.                                  *)
C12_MalformedFrameDropped ==
    [][Malformed(hist'.lastFrame) =>
        /\ buffers' = buffers
        /\ key_order' = key_order
        /\ pc' = "streaming"
        /\ transport' = "open"
        /\ hist'.nwaits = hist.nwaits]_vars

(* The step cancels a ping task or a flush task that is in its sleep *)
CancelsSleepingTask ==
    \/ ping_task = "sleeping" /\ ping_task' = "cancelled"
    \/ flush_task = "sleeping" /\ flush_task' = "cancelled"

(* C13: cancelling and awaiting the ping task or the flush task while it   *)
(* sleeps raises nothing out of the cleanup of _connect_once or of         *)
(* run_forever: unless the main task itself was cancelled from outside,    *)
(* run_forever has not ended with an exception after such a step.          *)
C13_CancellationTolerated ==
    [][(CancelsSleepingTask /\ ~hist'.shutdown) => hist'.exit = "none"]_vars

(* The subscribe requests among the payloads sent on the connection *)
SubscribesSent(s) == SelectSeq(s, LAMBDA p : p.op = "subscribe")

(* The connection has carried one subscribe request, its first payload,    *)
(* which lists the subscriptions subs in their order.                      *)
SubscribedOnce(s, conn, subs) ==
    /\ Len(SubscribesSent(s)) = 1
    /\ s[1].op = "subscribe"
    /\ s[1].conn = conn
    /\ s[1].args = [i \in 1..Len(subs) |-> to_arg(subs[i])]

PingSent == Len(sent') = Len(sent) + 1 /\ Last(sent').op = "ping"

(* C15: a ping task is live only while the attempt that created it is in   *)
(* its receive loop, on the connection that attempt opened: none is live   *)
(* while connecting, subscribing or waiting a backoff delay; when an       *)
(* attempt begins its receive loop no earlier ping task is live, so there  *)
(* is never more than one; a step that leaves the receive loop leaves the  *)
(* ping task cancelled or finished; and a ping goes out only on the open   *)
(* connection of the attempt that is in its receive loop.                  *)
C15_OnePingerPerAttempt ==
    [][/\ ping_task' = "sleeping" => (pc' = "streaming" /\ ws' = hist'.attempts)
       /\ (pc /= "streaming" /\ pc' = "streaming") =>
              (ping_task \in {"none", "done", "cancelled"} /\ ping_task' = "sleeping")
       /\ (pc = "streaming" /\ pc' /= "streaming") => ping_task' \in {"done", "cancelled"}
       /\ PingSent =>
              /\ pc = "streaming"
              /\ transport = "open"
              /\ Last(sent').conn = ws
              /\ ws = hist.attempts]_vars

(* The first connection's ping task ended, the attempt failed, and the     *)
(* second connection has its own ping task, which has sent a ping on it.   *)
C15_Witness ==
    /\ hist.attempts = 2
    /\ hist.nwaits = 1
    /\ pc = "streaming"
    /\ ping_task = "sleeping"
    /\ ws = 2
    /\ Len(sent) = 2
    /\ sent[2] = [conn |-> 2, op |-> "ping", args |-> <<>>]

(* The step is the ping task's failed send: the task ends *)
PingerDies == ping_task = "sleeping" /\ ping_task' = "done"

(* C16: the step in which the ping task's send fails ends that task and    *)
(* changes nothing else: the main task stays in its receive loop, no wait  *)
(* and no new attempt begins, nothing is raised; while the attempt stays   *)
(* in its receive loop no new ping task is started; and when the attempt   *)
(* later ends (not by cancellation of the main task) its cleanup raises    *)
(* nothing: run_forever goes on to a wait or to the next attempt.          *)
C16_PingerFailureIsSilent ==
    [][/\ PingerDies =>
              /\ pc = "streaming" /\ pc' = "streaming"
              /\ transport' = transport
              /\ hist'.nwaits = hist.nwaits
              /\ hist'.attempts = hist.attempts
              /\ hist'.exit = "none"
              /\ stop' = stop /\ flush_task' = flush_task
              /\ buffers' = buffers /\ delay' = delay
       /\ (ping_task = "done" /\ pc = "streaming" /\ pc' = "streaming") =>
              ping_task' = "done"
       /\ (ping_task = "done" /\ pc = "streaming" /\ pc' /= "streaming"
               /\ ~hist'.shutdown) =>
              /\ pc' \in {"backoff", "connecting"}
              /\ hist'.exit = "none"
              /\ ping_task' = "done"
              /\ flush_task' = flush_task]_vars

(* The connection broke, the ping task's send failed, and the attempt then *)
(* ended with the receive error and waits its backoff delay.               *)
C16_Witness ==
    /\ ping_task = "done"
    /\ pc = "backoff"
    /\ hist.lastError = "RecvError"
    /\ hist.nwaits = 1
    /\ flush_task = "sleeping"
    /\ hist.exit = "none"

(* C17: the flush task run_forever started lives through every end of a    *)
(* connection attempt: as long as no shutdown was requested, an envelope   *)
(* waiting in the buffers has the flush task asleep before its next poll,  *)
(* whether or not a connection is up.                                      *)
C17_WriterOutlivesAttempts ==
    (NonEmptyKeys(buffers) /= {} /\ ~hist.shutdown) => flush_task = "sleeping"

(* C18: per key, the envelopes that arrived are exactly the contents of    *)
(* the files written for the key, one after the other, followed by the     *)
(* key's buffered sequence: every envelope is in the buffer or in one      *)
(* file, none is in two, none has left the buffer without being in a file. *)
C18_EachEnvelopeAccountedOnce ==
    \A k \in DOMAIN hist.arrived :
        /\ k \in DOMAIN buffers
        /\ hist.arrived[k] = WrittenFor(k, writes) \o buffers[k]

(* A Data frame in the sense of C19: a JSON object that is no control      *)
(* frame, with a non-empty payload and an argument object whose instId and *)
(* channel can make a key (a string, or missing).                          *)
Qualifying(f) ==
    /\ f.json = "object"
    /\ f.event \notin ControlEvents \cup {Unhashable}
    /\ f.arg.kind = "object"
    /\ Unhashable \notin {f.arg.instId, f.arg.channel}
    /\ f.data.kind = "rows"

(* C19: handling a qualifying Data frame with instId i and channel c ends  *)
(* with the entry of key (i, c) being what it was before (empty when there *)
(* was none) followed by one envelope with instId i, channel c, the        *)
(* frame's data, and an action member exactly when the frame has one; the  *)
(* other entries are as before and no other entry appears; and in every    *)
(* state each envelope stored under a key carries that key's instId and    *)
(* channel.                                                                *)
C19_DataFrameAppendsOneEnvelope ==
    [][/\ Qualifying(hist'.lastFrame) =>
              LET f == hist'.lastFrame
                  k == <<f.arg.instId, f.arg.channel>>
                  before == IF k \in DOMAIN buffers THEN buffers[k] ELSE <<>>
              IN  /\ DOMAIN buffers' = DOMAIN buffers \cup {k}
                  /\ Len(buffers'[k]) = Len(before) + 1
                  /\ SubSeq(buffers'[k], 1, Len(before)) = before
                  /\ LET e == Last(buffers'[k])
                     IN  /\ e.instId = f.arg.instId
                         /\ e.channel = f.arg.channel
                         /\ e.data = f.data.rows
                         /\ ("action" \in DOMAIN e) <=> (f.action /= NoneVal)
                         /\ f.action /= NoneVal => e.action = f.action
                  /\ \A k2 \in DOMAIN buffers \ {k} : buffers'[k2] = buffers[k2]
       /\ \A k \in DOMAIN buffers' : \A n \in 1..Len(buffers'[k]) :
              buffers'[k][n].instId = k[1] /\ buffers'[k][n].channel = k[2]]_vars

(* A frame with an action for a key that was not registered created the    *)
(* key's entry, next to a registered key that holds an envelope without    *)
(* an action.                                                              *)
C19_Witness ==
    /\ subscriptions = <<SubTrades>>
    /\ DOMAIN buffers = {<<"BTC", "trades">>, <<"ETH", "trades">>}
    /\ Len(buffers[<<"BTC", "trades">>]) = 1
    /\ "action" \notin DOMAIN buffers[<<"BTC", "trades">>][1]
    /\ Len(buffers[<<"ETH", "trades">>]) = 1
    /\ "action" \in DOMAIN buffers[<<"ETH", "trades">>][1]
    /\ buffers[<<"ETH", "trades">>][1].action = "update"
    /\ hist.lastFrame.arg.instId = "ETH"

(* The keys of a list of subscriptions *)
KeysOf(subs) == {KeyOf(subs[i]) : i \in 1..Len(subs)}

(* What C20 says of one call set_subscriptions(S) on buffers bufs *)
SetSubscriptionsKeeps(bufs, order, S) ==
    LET r == set_subscriptions(bufs, order, S)
    IN  /\ r.subscriptions = S
        /\ DOMAIN r.buffers = DOMAIN bufs \cup KeysOf(S)
        /\ \A k \in DOMAIN bufs : r.buffers[k] = bufs[k]
        /\ \A k \in KeysOf(S) \ DOMAIN bufs : r.buffers[k] = <<>>
        /\ set_subscriptions(r.buffers, r.order, S) = r

(* C20: in every state a call set_subscriptions(S), for each list S,       *)
(* would make S the registry, keep every entry with its sequence, add an   *)
(* empty entry for exactly the keys of S that have none, and give the same *)
(* state when called again; every key of the registry has an entry; and no *)
(* step removes an entry, a step that changes the registry changing no     *)
(* sequence and adding only empty entries for keys of the new registry.    *)
C20_SetSubscriptionsOnlyAdds ==
    /\ [](/\ \A S \in SubLists : SetSubscriptionsKeeps(buffers, key_order, S)
          /\ KeysOf(subscriptions) \subseteq DOMAIN buffers)
    /\ [][/\ DOMAIN buffers \subseteq DOMAIN buffers'
          /\ subscriptions' /= subscriptions =>
                /\ \A k \in DOMAIN buffers : buffers'[k] = buffers[k]
                /\ DOMAIN buffers' \ DOMAIN buffers \subseteq KeysOf(subscriptions')
                /\ \A k \in DOMAIN buffers' \ DOMAIN buffers : buffers'[k] = <<>>]_vars

(* After the subscribe request listed trades and books, the one call of    *)
(* set_subscriptions of this run left only trades in the registry; the     *)
(* entry of books is still there and holds an envelope.                    *)
C20_Witness ==
    /\ hist.nset = 1
    /\ subscriptions = <<SubTrades>>
    /\ sent /= <<>>
    /\ Len(sent[1].args) = 2
    /\ <<"BTC", "books">> \in DOMAIN buffers
    /\ buffers[<<"BTC", "books">>] /= <<>>

(* C21: the files one call of flush_buffers writes have pairwise different *)
(* paths: no two keys with a non-empty sequence are written to the same    *)
(* file, so no file of the call is overwritten by a later one of the call. *)
C21_DistinctKeysDistinctFiles ==
    [][FlushStep =>
        \A i, j \in 1..Len(NewWrites) :
            (i /= j /\ NewWrites[i].key /= NewWrites[j].key) =>
                NewWrites[i].path /= NewWrites[j].path]_vars

(* The step ends the receive loop of an attempt and the main task was not  *)
(* cancelled from outside                                                  *)
ReceiveLoopEnds == pc = "streaming" /\ pc' /= "streaming" /\ ~hist'.shutdown

(* The server had closed the connection cleanly and no handler raised *)
CleanClose == transport = "closed" /\ hist'.lastFrame = NoFrame

(* C22: when the receive loop ends after a clean close by the server the   *)
(* next attempt begins in the same step, with no wait before it (that      *)
(* attempt may itself fail at once on an empty registry); when it ends     *)
(* otherwise exactly one wait begins; a wait begins only with an error     *)
(* reported; and the end of a wait begins the next attempt.                *)
C22_CleanEndRetriesAtOnce ==
    [][/\ (ReceiveLoopEnds /\ CleanClose) =>
              /\ hist'.attempts = hist.attempts + 1
              /\ hist'.nwaits = hist.nwaits \/ hist'.lastError = "AssertionError"
       /\ (ReceiveLoopEnds /\ ~CleanClose) =>
              /\ pc' = "backoff"
              /\ hist'.nwaits = hist.nwaits + 1
              /\ hist'.attempts = hist.attempts
       /\ hist'.nwaits /= hist.nwaits =>
              /\ hist'.nwaits = hist.nwaits + 1
              /\ hist'.lastError /= "none"
              /\ pc' = "backoff"
       /\ (pc = "backoff" /\ pc' /= "backoff" /\ ~hist'.shutdown) =>
              hist'.attempts = hist.attempts + 1]_vars

(* C23: the step in which run_forever ends leaves the flush task cancelled *)
(* and the stop flag set, writes no file and leaves every buffered         *)
(* sequence where it is.                                                   *)
C23_NoFlushOnStop ==
    [][(pc /= "terminated" /\ pc' = "terminated") =>
          /\ flush_task' = "cancelled"
          /\ stop'
          /\ writes' = writes
          /\ buffers' = buffers]_vars

(* After a flush had written a file, another envelope arrived and the main *)
(* task was cancelled: the envelope is still buffered, the flush task is   *)
(* cancelled and the only file is the one of the earlier flush.            *)
C23_Witness ==
    /\ pc = "terminated"
    /\ hist.shutdown
    /\ flush_task = "cancelled"
    /\ hist.nflush = 1
    /\ Len(writes) = 1
    /\ hist.nappend = 2
    /\ Cardinality(NonEmptyKeys(buffers)) = 1

====
